---------------------------- MODULE Spec2Model ----------------------------
(***************************************************************************)
(* serde-aux: the two field-level deserialization hooks of src/lib.rs,     *)
(*   deserialize_string_from_number  and  deserialize_number_from_string.  *)
(*                                                                         *)
(* A call is modelled on the serde data model: the deserializer cursor     *)
(* yields one value of a wire shape (text, unsigned or signed 64-bit       *)
(* integer, floating-point literal, boolean, null, list, object), the      *)
(* derived untagged enum StringOrInt buffers it and tries its variants in  *)
(* declaration order, and the match arm builds the result.                 *)
(*                                                                         *)
(* 64-bit integers are kept at their width: a value is its 64-bit pattern, *)
(* four 16-bit limbs, most significant first; an i64 is two's complement.  *)
(* Text is a sequence of one-character strings.                            *)
(***************************************************************************)
EXTENDS Integers, Sequences, FiniteSets, TLC

VARIABLES hook, T, input, pc, variant, result

vars == <<hook, T, input, pc, variant, result>>

(***************************************************************************)
(* Bounds of the model.                                                    *)
(***************************************************************************)
\* Longest text enumerated exhaustively over Alphabet.
MaxLen == 3

(***************************************************************************)
(* 64-bit arithmetic on limbs.                                             *)
(***************************************************************************)
\* Width of the Number(i64) variant and of the u64 targets.
I64Bits == 64

LimbBase == 2^16

NLimbs == I64Bits \div 16

Zero64 == [i \in 1..NLimbs |-> 0]

\* i64::MAX = 2^63 - 1 and the pattern of 2^63 (= i64::MIN as two's complement).
I64Max == [i \in 1..NLimbs |-> IF i = 1 THEN (LimbBase \div 2) - 1 ELSE LimbBase - 1]

I64MinBits == [i \in 1..NLimbs |-> IF i = 1 THEN LimbBase \div 2 ELSE 0]

\* Unsigned comparison a <= b, most significant limb first.
RECURSIVE LeqFrom(_, _, _)
LeqFrom(a, b, i) ==
    IF i > NLimbs THEN TRUE
    ELSE IF a[i] < b[i] THEN TRUE
    ELSE IF a[i] > b[i] THEN FALSE
    ELSE LeqFrom(a, b, i + 1)

Leq64(a, b) == LeqFrom(a, b, 1)

\* a * m + c on 64 bits: the low 64 bits and the carry out of them.
RECURSIVE MulAddFrom(_, _, _, _)
MulAddFrom(a, m, c, i) ==
    IF i = 0 THEN [bits |-> a, carry |-> c]
    ELSE LET t == a[i] * m + c
         IN  MulAddFrom([a EXCEPT ![i] = t % LimbBase], m, t \div LimbBase, i - 1)

MulAdd64(a, m, c) == MulAddFrom(a, m, c, NLimbs)

\* a divided by the small number d: quotient and remainder (long division).
RECURSIVE DivModFrom(_, _, _, _)
DivModFrom(a, d, r, i) ==
    IF i > NLimbs THEN [quot |-> a, rem |-> r]
    ELSE LET t == r * LimbBase + a[i]
         IN  DivModFrom([a EXCEPT ![i] = t \div d], d, t % d, i + 1)

DivMod64(a, d) == DivModFrom(a, d, 0, 1)

\* !x, the bitwise complement.
Not64(a) == [i \in 1..NLimbs |-> (LimbBase - 1) - a[i]]

\* x.wrapping_add(1)
WrappingInc64(a) == MulAdd64(a, 1, 1).bits

\* x.wrapping_neg() = (!x).wrapping_add(1)
WrappingNeg64(a) == WrappingInc64(Not64(a))

\* The sign bit of a two's complement pattern.
IsNegative64(a) == a[1] >= LimbBase \div 2


(***************************************************************************)
(* Results.                                                                *)
(***************************************************************************)
Ok(v) == [ok |-> TRUE, val |-> v]

Err(e) == [ok |-> FALSE, err |-> e]

\* A value of type ty.
Val(ty, v) == [ty |-> ty, v |-> v]

(***************************************************************************)
(* Decimal text of integers: core::fmt::Display and core::str::FromStr.    *)
(***************************************************************************)
DigitChars == <<"0", "1", "2", "3", "4", "5", "6", "7", "8", "9">>

IsDigit(c) == \E d \in 1..Len(DigitChars) : DigitChars[d] = c

\* char::to_digit(10)
ToDigit(c) == (CHOOSE d \in 1..Len(DigitChars) : DigitChars[d] = c) - 1

\* The longest prefix of digits of s, as a length.
RECURSIVE DigitRun(_, _)
DigitRun(s, i) == IF i <= Len(s) /\ IsDigit(s[i]) THEN DigitRun(s, i + 1) ELSE i - 1

\* The decimal digits of a non-zero u64, produced from the least significant
\* one by repeated division by ten.
RECURSIVE DecDigits(_)
DecDigits(a) ==
    IF a = Zero64 THEN <<>>
    ELSE LET qr == DivMod64(a, Len(DigitChars))
         IN  DecDigits(qr.quot) \o <<DigitChars[qr.rem + 1]>>

fmt_u64(a) == IF a = Zero64 THEN <<"0">> ELSE DecDigits(a)

\* Faulty variant of i64_to_string: the magnitude of a negative number is not
\* taken, its 64-bit pattern is written after the '-'.
i64_to_string_no_abs(bits) ==
    IF ~IsNegative64(bits) THEN fmt_u64(bits) ELSE <<"-">> \o fmt_u64(bits)

\* i64::to_string(): the magnitude is taken on 64 unsigned bits, and a '-' is
\* written for a negative value only.
i64_to_string(bits) ==
    LET is_nonnegative == ~IsNegative64(bits)
        n == IF is_nonnegative THEN bits ELSE WrappingNeg64(bits)
    IN  IF is_nonnegative THEN fmt_u64(n) ELSE <<"-">> \o fmt_u64(n)

\* The digit loop of from_str_radix(src, 10): checked_mul then checked_add
\* (checked_sub for a negative number), on a magnitude that may not pass limit.
RECURSIVE ParseDigits(_, _, _, _, _)
ParseDigits(digits, i, acc, limit, overflow) ==
    IF i > Len(digits) THEN Ok(acc)
    ELSE IF ~IsDigit(digits[i]) THEN Err("invalid digit found in string")
    ELSE LET mul == MulAdd64(acc, Len(DigitChars), 0)
         IN  IF mul.carry > 0 \/ ~Leq64(mul.bits, limit) THEN Err(overflow)
             ELSE LET add == MulAdd64(mul.bits, 1, ToDigit(digits[i]))
                  IN  IF add.carry > 0 \/ ~Leq64(add.bits, limit) THEN Err(overflow)
                      ELSE ParseDigits(digits, i + 1, add.bits, limit, overflow)

PosOverflow == "number too large to fit in target type"

NegOverflow == "number too small to fit in target type"

AllOnes64 == [i \in 1..NLimbs |-> LimbBase - 1]

\* <u64 as FromStr>::from_str: an optional '+', then digits; a '-' is no digit.
u64_from_str(s) ==
    IF s = <<>> THEN Err("cannot parse integer from empty string")
    ELSE IF Len(s) = 1 /\ s[1] \in {"+", "-"} THEN Err("invalid digit found in string")
    ELSE LET digits == IF s[1] = "+" THEN Tail(s) ELSE s
         IN  ParseDigits(digits, 1, Zero64, AllOnes64, PosOverflow)

\* Faulty variant of i64_from_str: the negative range ends at -i64::MAX, so
\* i64::MIN is refused.
i64_from_str_symmetric(s) ==
    IF s = <<>> THEN Err("cannot parse integer from empty string")
    ELSE IF Len(s) = 1 /\ s[1] \in {"+", "-"} THEN Err("invalid digit found in string")
    ELSE IF s[1] = "-"
         THEN LET r == ParseDigits(Tail(s), 1, Zero64, I64Max, NegOverflow)
              IN  IF r.ok THEN Ok(WrappingNeg64(r.val)) ELSE r
         ELSE LET digits == IF s[1] = "+" THEN Tail(s) ELSE s
              IN  ParseDigits(digits, 1, Zero64, I64Max, PosOverflow)

\* <i64 as FromStr>::from_str: an optional sign, then digits.
i64_from_str(s) ==
    IF s = <<>> THEN Err("cannot parse integer from empty string")
    ELSE IF Len(s) = 1 /\ s[1] \in {"+", "-"} THEN Err("invalid digit found in string")
    ELSE IF s[1] = "-"
         THEN LET r == ParseDigits(Tail(s), 1, Zero64, I64MinBits, NegOverflow)
              IN  IF r.ok THEN Ok(WrappingNeg64(r.val)) ELSE r
         ELSE LET digits == IF s[1] = "+" THEN Tail(s) ELSE s
              IN  ParseDigits(digits, 1, Zero64, I64Max, PosOverflow)

\* impl FromStr for IntId: Ok(IntId(u64::from_str(s)?))
IntId_from_str(s) == u64_from_str(s)

(***************************************************************************)
(* The deserializer's value, buffered by the untagged enum (serde's        *)
(* Content), and the native Deserialize impls reading it back.             *)
(***************************************************************************)
Content(shape, x) == [shape |-> shape, x |-> x]

InvalidType == "invalid type"

InvalidValue == "invalid value"

\* String::deserialize: text only.
Deserialize_String(c) ==
    IF c.shape = "Str" THEN Ok(Val("String", c.x)) ELSE Err(InvalidType)

\* Faulty variant of Deserialize_i64: a u64 is converted with `as`, so a number
\* above i64::MAX wraps to a negative one.
Deserialize_i64_wrapping(c) ==
    IF c.shape \in {"I64", "U64"} THEN Ok(Val("i64", c.x)) ELSE Err(InvalidType)

\* Faulty variant of Deserialize_i64: a boolean is read as 0 or 1.
Deserialize_i64_bool(c) ==
    IF c.shape = "I64" THEN Ok(Val("i64", c.x))
    ELSE IF c.shape = "U64"
         THEN IF Leq64(c.x, I64Max) THEN Ok(Val("i64", c.x)) ELSE Err(InvalidValue)
    ELSE IF c.shape = "Bool"
         THEN Ok(Val("i64", IF c.x THEN WrappingInc64(Zero64) ELSE Zero64))
         ELSE Err(InvalidType)

\* i64::deserialize: visit_i64 as is, visit_u64 when it fits (checked, never
\* `as`), and no visit_f64, visit_bool, visit_str, visit_seq or visit_map.
Deserialize_i64(c) ==
    IF c.shape = "I64" THEN Ok(Val("i64", c.x))
    ELSE IF c.shape = "U64"
         THEN IF Leq64(c.x, I64Max) THEN Ok(Val("i64", c.x)) ELSE Err(InvalidValue)
         ELSE Err(InvalidType)

\* Faulty variant of Deserialize_u64: a text is read too, by its leading digits.
Deserialize_u64_lenient(c) ==
    IF c.shape = "U64" THEN Ok(Val("u64", c.x))
    ELSE IF c.shape = "I64"
         THEN IF ~IsNegative64(c.x) THEN Ok(Val("u64", c.x)) ELSE Err(InvalidValue)
    ELSE IF c.shape = "Str" /\ DigitRun(c.x, 1) > 0
         THEN LET r == ParseDigits(SubSeq(c.x, 1, DigitRun(c.x, 1)), 1, Zero64,
                                   AllOnes64, PosOverflow)
              IN  IF r.ok THEN Ok(Val("u64", r.val)) ELSE Err(InvalidValue)
         ELSE Err(InvalidType)

\* u64::deserialize: visit_u64 as is, visit_i64 when it is not negative.
Deserialize_u64(c) ==
    IF c.shape = "U64" THEN Ok(Val("u64", c.x))
    ELSE IF c.shape = "I64"
         THEN IF ~IsNegative64(c.x) THEN Ok(Val("u64", c.x)) ELSE Err(InvalidValue)
         ELSE Err(InvalidType)

\* #[derive(Deserialize)] struct IntId(u64): the newtype reads its field.
Deserialize_IntId(c) ==
    LET r == Deserialize_u64(c)
    IN  IF r.ok THEN Ok(Val("IntId", r.val.v)) ELSE r

\* serde_json::Value::deserialize: every shape has a Value (an integer that is
\* not negative is kept as a u64).
RECURSIVE JsonOf(_)
JsonOf(c) ==
    CASE c.shape = "Unit" -> [k |-> "Null", x |-> <<>>]
      [] c.shape = "Seq"  -> [k |-> "Array", x |-> [i \in 1..Len(c.x) |-> JsonOf(c.x[i])]]
      [] c.shape = "Map"  ->
            [k |-> "Object", x |-> [i \in 1..Len(c.x) |-> <<c.x[i][1], JsonOf(c.x[i][2])>>]]
      [] c.shape = "Str"  -> [k |-> "String", x |-> c.x]
      [] c.shape = "I64" /\ ~IsNegative64(c.x) -> [k |-> "U64", x |-> c.x]
      [] OTHER            -> [k |-> c.shape, x |-> c.x]

Deserialize_Value(c) == Ok(Val("Value", JsonOf(c)))

\* <T as Deserialize>::deserialize on the buffered value.
NativeDeserialize(ty, c) ==
    CASE ty = "u64"    -> Deserialize_u64(c)
      [] ty = "i64"    -> Deserialize_i64(c)
      [] ty = "IntId"  -> Deserialize_IntId(c)
      [] ty = "String" -> Deserialize_String(c)
      [] ty = "Value"  -> Deserialize_Value(c)

(***************************************************************************)
(* T's text-parsing rule, <T as FromStr>::from_str.                        *)
(***************************************************************************)
\* serde_json's integer: no leading zero; u64 when it fits, i64 when negative
\* and it fits, and a float otherwise (also for "-0"); nothing may follow.
\* (The texts modelled hold no '.', 'e' or 'E'.)
JsonNumber(s, digits, positive) ==
    IF digits = <<>> \/ ~IsDigit(digits[1]) THEN Err("invalid number")
    ELSE IF digits[1] = "0" /\ Len(digits) >= 2 /\ IsDigit(digits[2]) THEN Err("invalid number")
    ELSE LET n == DigitRun(digits, 1)
             significand == ParseDigits(SubSeq(digits, 1, n), 1, Zero64, AllOnes64, PosOverflow)
         IN  IF n < Len(digits) THEN Err("trailing characters")
             ELSE IF ~significand.ok THEN Ok([k |-> "F64", x |-> s])
             ELSE IF positive THEN Ok([k |-> "U64", x |-> significand.val])
             ELSE IF ~IsNegative64(WrappingNeg64(significand.val))
                  THEN Ok([k |-> "F64", x |-> s])
                  ELSE Ok([k |-> "I64", x |-> WrappingNeg64(significand.val)])

FalseIdent == <<"f", "a", "l", "s", "e">>

IsPrefix(a, b) == Len(a) <= Len(b) /\ SubSeq(b, 1, Len(a)) = a

\* serde_json::from_str::<Value>, on texts of digits, signs and letters.
Json_from_str(s) ==
    IF s = <<>> THEN Err("EOF while parsing a value")
    ELSE IF s[1] = "-" THEN JsonNumber(s, Tail(s), FALSE)
    ELSE IF IsDigit(s[1]) THEN JsonNumber(s, s, TRUE)
    ELSE IF s[1] = "f"
         THEN IF s = FalseIdent THEN Ok([k |-> "Bool", x |-> FALSE])
              ELSE IF IsPrefix(FalseIdent, s) THEN Err("trailing characters")
              ELSE IF IsPrefix(s, FalseIdent) THEN Err("EOF while parsing a value")
              ELSE Err("expected ident")
    ELSE Err("expected value")

\* s.parse::<T>(): Ok(value of T) or Err(the parser's error, by its Display).
FromStr(ty, s) ==
    LET r == CASE ty = "u64"    -> u64_from_str(s)
               [] ty = "i64"    -> i64_from_str(s)
               [] ty = "IntId"  -> IntId_from_str(s)
               [] ty = "String" -> Ok(s)
               [] ty = "Value"  -> Json_from_str(s)
    IN  IF r.ok THEN Ok(Val(ty, r.val)) ELSE r

(***************************************************************************)
(* The two hooks.                                                          *)
(***************************************************************************)
Untagged(tag, v) == [variant |-> tag, v |-> v]

NoVariant == [kind |-> "untagged",
              msg |-> "data did not match any variant of untagged enum StringOrInt"]

\* serde::de::Error::custom(e): the message is e's Display.
Custom(e) == [kind |-> "custom", msg |-> e]

\* #[serde(untagged)] enum StringOrInt { String(String), Number(i64) }:
\* the variants are tried in declaration order on the buffered value.
StringOrInt_i64_deserialize(c) ==
    LET s == Deserialize_String(c)
        n == Deserialize_i64(c)
    IN  IF s.ok THEN Ok(Untagged("String", s.val))
        ELSE IF n.ok THEN Ok(Untagged("Number", n.val))
        ELSE Err(NoVariant)

\* Faulty variant of StringOrInt_T_deserialize: the Number variant holds an
\* i64, as in the other hook, not a T.
StringOrInt_T_deserialize_i64(ty, c) ==
    LET s == Deserialize_String(c)
        n == Deserialize_i64(c)
    IN  IF s.ok THEN Ok(Untagged("String", s.val))
        ELSE IF n.ok THEN Ok(Untagged("Number", n.val))
        ELSE Err(NoVariant)

\* Faulty variant of StringOrInt_T_deserialize: Number(T) is declared, and so
\* tried, before String(String).
StringOrInt_T_deserialize_native_first(ty, c) ==
    LET s == Deserialize_String(c)
        n == NativeDeserialize(ty, c)
    IN  IF n.ok THEN Ok(Untagged("Number", n.val))
        ELSE IF s.ok THEN Ok(Untagged("String", s.val))
        ELSE Err(NoVariant)

\* #[serde(untagged)] enum StringOrInt<T> { String(String), Number(T) }
StringOrInt_T_deserialize(ty, c) ==
    LET s == Deserialize_String(c)
        n == NativeDeserialize(ty, c)
    IN  IF s.ok THEN Ok(Untagged("String", s.val))
        ELSE IF n.ok THEN Ok(Untagged("Number", n.val))
        ELSE Err(NoVariant)

\* Faulty variant of string_from_number_match: a text is returned only when it
\* reads as a number.
string_from_number_match_validating(e) ==
    IF ~e.ok THEN e
    ELSE IF e.val.variant = "String"
         THEN IF i64_from_str(e.val.v.v).ok THEN Ok(e.val.v)
              ELSE Err(Custom(i64_from_str(e.val.v.v).err))
    ELSE Ok(Val("String", i64_to_string(e.val.v.v)))

\* match StringOrInt::deserialize(deserializer)? { String(s) => Ok(s),
\*                                                 Number(i) => Ok(i.to_string()) }
string_from_number_match(e) ==
    IF ~e.ok THEN e
    ELSE IF e.val.variant = "String" THEN Ok(e.val.v)
    ELSE Ok(Val("String", i64_to_string(e.val.v.v)))

\* T::default(), for the faulty variant below.
DefaultOf(ty) ==
    CASE ty \in {"u64", "i64", "IntId"} -> Val(ty, Zero64)
      [] ty = "String" -> Val(ty, <<>>)
      [] ty = "Value"  -> Val(ty, [k |-> "Null", x |-> <<>>])

\* Faulty variant of number_from_string_match: a text that does not parse
\* gives T's default value.
number_from_string_match_default(ty, e) ==
    IF ~e.ok THEN e
    ELSE IF e.val.variant = "String"
         THEN LET r == FromStr(ty, e.val.v.v)
              IN  IF r.ok THEN r ELSE Ok(DefaultOf(ty))
         ELSE Ok(e.val.v)

\* Faulty variant of number_from_string_match: the text for an integer T is
\* parsed as an i64, whatever the integer type is.
number_from_string_match_i64(ty, e) ==
    IF ~e.ok THEN e
    ELSE IF e.val.variant = "String"
         THEN LET r == IF ty \in {"u64", "i64", "IntId"}
                       THEN i64_from_str(e.val.v.v)
                       ELSE FromStr(ty, e.val.v.v)
              IN  IF ~r.ok THEN Err(Custom(r.err))
                  ELSE IF ty \in {"u64", "i64", "IntId"} THEN Ok(Val(ty, r.val)) ELSE r
         ELSE Ok(e.val.v)

\* match StringOrInt::<T>::deserialize(deserializer)? {
\*     String(s) => s.parse::<T>().map_err(serde::de::Error::custom),
\*     Number(i) => Ok(i) }
number_from_string_match(ty, e) ==
    IF ~e.ok THEN e
    ELSE IF e.val.variant = "String"
         THEN LET r == FromStr(ty, e.val.v.v)
              IN  IF r.ok THEN r ELSE Err(Custom(r.err))
         ELSE Ok(e.val.v)

string_from_number(c) == string_from_number_match(StringOrInt_i64_deserialize(c))

number_from_string(ty, c) == number_from_string_match(ty, StringOrInt_T_deserialize(ty, c))

VariantOf(e) == IF e.ok THEN e.val.variant ELSE "None"

(***************************************************************************)
(* Inputs.                                                                 *)
(***************************************************************************)
Alphabet == {"0", "1", "3", "-", "+", "f"}

RECURSIVE TextsUpTo(_)
TextsUpTo(n) ==
    IF n = 0 THEN {<<>>}
    ELSE TextsUpTo(n - 1) \cup {Append(t, ch) : t \in TextsUpTo(n - 1), ch \in Alphabet}

\* The texts of the documentation's examples, and the decimal texts around
\* the ends of i64 and u64.
SampleTexts ==
    { <<"f", "o", "o">>, <<"1", "2", "3">>, <<"2", "2", "1">>, <<"0", "0", "7">>,
      fmt_u64(I64Max), fmt_u64(I64MinBits), <<"-">> \o fmt_u64(I64MinBits),
      <<"-">> \o fmt_u64(WrappingInc64(I64MinBits)),
      fmt_u64(AllOnes64), Append(fmt_u64(AllOnes64), "0"),
      <<"+">> \o fmt_u64(I64Max), <<"-", "0", "0", "1", "3">> }

Texts == TextsUpTo(MaxLen) \cup SampleTexts

\* 64-bit patterns: the small numbers of the examples (13, 232, 655 and -13
\* among them) and the ends of the signed and the unsigned range.
TopLimbs == {0, 1, (LimbBase \div 2) - 1, LimbBase \div 2, LimbBase - 1}

MidLimbs == {0, LimbBase - 1}

LowLimbs == {0, 1, 9, 10, 13, 232, 655, LimbBase - 13, LimbBase - 1}

Patterns == {<<a, b, c, d>> : a \in TopLimbs, b \in MidLimbs, c \in MidLimbs, d \in LowLimbs}

FloatLiterals == { <<"1", ".", "5">>, <<"1", ".", "0">>, <<"4", "3", "2", ".", "8", "9", "7">>,
                   <<"1", "e", "3", "0">> }

Lists == { <<>>, <<Content("U64", <<0, 0, 0, 1>>)>>, <<Content("Str", <<"1">>)>> }

Objects == { <<>>, <<<< <<"i">>, Content("U64", <<0, 0, 0, 1>>) >>>> }

Types == {"u64", "i64", "IntId", "String", "Value"}

NumericTypes == {"u64", "i64", "IntId"}

Hooks == {"deserialize_string_from_number", "deserialize_number_from_string"}

(***************************************************************************)
(* The state machine: the framework positions the cursor on one value and  *)
(* calls the field's hook once.                                            *)
(***************************************************************************)
\* Before the hook returns there is no result yet.
Pending == Err([kind |-> "pending", msg |-> ""])

InputIs(shape, payloads) == \E x \in payloads : input = Content(shape, x)

Init ==
    /\ pc = "call"
    /\ variant = "None"
    /\ result = Pending
    /\ \/ hook = "deserialize_string_from_number" /\ T = "String"
       \/ hook = "deserialize_number_from_string" /\ T \in Types
    /\ \/ InputIs("Str", Texts)
       \/ InputIs("U64", Patterns)
       \/ InputIs("I64", Patterns)
       \/ InputIs("F64", FloatLiterals)
       \/ InputIs("Bool", BOOLEAN)
       \/ InputIs("Unit", {<<>>})
       \/ InputIs("Seq", Lists)
       \/ InputIs("Map", Objects)

deserialize_string_from_number ==
    /\ pc = "call"
    /\ hook = "deserialize_string_from_number"
    /\ variant' = VariantOf(StringOrInt_i64_deserialize(input))
    /\ result' = string_from_number(input)
    /\ pc' = "done"
    /\ UNCHANGED <<hook, T, input>>

deserialize_number_from_string ==
    /\ pc = "call"
    /\ hook = "deserialize_number_from_string"
    /\ variant' = VariantOf(StringOrInt_T_deserialize(T, input))
    /\ result' = number_from_string(T, input)
    /\ pc' = "done"
    /\ UNCHANGED <<hook, T, input>>

Next == deserialize_string_from_number \/ deserialize_number_from_string

Spec == Init /\ [][Next]_vars

(***************************************************************************)
(* Vocabulary of the properties.                                           *)
(***************************************************************************)
Returned(h) == pc = "done" /\ hook = h

IsText == input.shape = "Str"

\* The input is a signed 64-bit integer: any I64, or a U64 up to i64::MAX.
IsI64 == input.shape = "I64" \/ (input.shape = "U64" /\ Leq64(input.x, I64Max))

\* Equality of two values, and of two results, compared kind first.
SameVal(a, b) ==
    /\ a.ty = b.ty
    /\ IF a.ty = "Value" THEN a.v.k = b.v.k /\ a.v.x = b.v.x ELSE a.v = b.v

SameResult(r1, r2) ==
    /\ r1.ok = r2.ok
    /\ IF r1.ok THEN SameVal(r1.val, r2.val) ELSE r1.err = r2.err

\* The number a text of decimal digits denotes, by Horner's rule (64 bits
\* and the carry out of them).
RECURSIVE DecimalValue(_, _, _)
DecimalValue(digits, i, acc) ==
    IF i > Len(digits) THEN [bits |-> acc, carry |-> 0]
    ELSE LET step == MulAdd64(acc, 10, ToDigit(digits[i]))
         IN  IF step.carry > 0 THEN step ELSE DecimalValue(digits, i + 1, step.bits)

\* text is the canonical base-10 text of the i64 with pattern bits.
CanonicalDecimal(text, bits) ==
    /\ text # <<>>
    /\ (text[1] = "-") <=> IsNegative64(bits)
    /\ LET digits == IF text[1] = "-" THEN Tail(text) ELSE text
           value == DecimalValue(digits, 1, Zero64)
       IN  /\ digits # <<>>
           /\ \A i \in 1..Len(digits) : IsDigit(digits[i])
           /\ digits[1] = "0" => Len(digits) = 1
           /\ value.carry = 0
           /\ value.bits = (IF IsNegative64(bits) THEN WrappingNeg64(bits) ELSE bits)

\* What the text path owes: T's parse of the text, or the parser's error
\* through Error::custom.
ParseOutcome(ty, s) ==
    LET r == FromStr(ty, s) IN IF r.ok THEN r ELSE Err(Custom(r.err))

\* The classification with the two attempts swapped: native T first, text second.
NativeFirst(ty, c) ==
    LET n == NativeDeserialize(ty, c)
        s == Deserialize_String(c)
    IN  IF n.ok THEN Ok(n.val)
        ELSE IF s.ok THEN ParseOutcome(ty, s.val.v)
        ELSE Err(NoVariant)

BothVariantsMatch(ty, c) == Deserialize_String(c).ok /\ NativeDeserialize(ty, c).ok

(***************************************************************************)
(* Properties.                                                             *)
(***************************************************************************)
SFN == "deserialize_string_from_number"

NFS == "deserialize_number_from_string"

\* C1: for every text input s, also one that does not look like a number and
\* the empty one, deserialize_string_from_number succeeds with exactly s.
C1_TextIsReturnedUnchanged ==
    (Returned(SFN) /\ IsText) =>
        /\ result.ok
        /\ result.val.ty = "String"
        /\ result.val.v = input.x

C1_Witness ==
    /\ Returned(SFN)
    /\ IsText /\ input.x = <<"f", "o", "o">>
    /\ result.ok /\ result.val.v = <<"f", "o", "o">>

\* C2: for every signed 64-bit integer n, deserialize_string_from_number
\* succeeds with the canonical base-10 text of n: digits only after an optional
\* '-', no leading zero, '-' exactly when n < 0, never a '+', and the digits
\* denote |n|.
C2_IntegerToCanonicalDecimal ==
    (Returned(SFN) /\ IsI64) =>
        /\ result.ok
        /\ result.val.ty = "String"
        /\ CanonicalDecimal(result.val.v, input.x)

C2_Witness ==
    /\ Returned(SFN)
    /\ input.shape = "I64" /\ input.x = WrappingNeg64(<<0, 0, 0, 13>>)
    /\ result.ok /\ result.val.v = <<"-", "1", "3">>

\* C3: for every text s that T's parsing rule accepts with value v,
\* deserialize_number_from_string succeeds with exactly v.
C3_ParsedTextIsReturned ==
    (Returned(NFS) /\ IsText /\ FromStr(T, input.x).ok) =>
        SameResult(result, FromStr(T, input.x))

C3_Witness ==
    /\ Returned(NFS)
    /\ T = "u64" /\ IsText /\ input.x = <<"1", "2", "3">>
    /\ result.ok /\ result.val.ty = "u64" /\ result.val.v = <<0, 0, 0, 123>>

C5_ParseFailureIsCustomError ==
    (Returned(NFS) /\ IsText /\ ~FromStr(T, input.x).ok) =>
        /\ ~result.ok
        /\ result.err = Custom(FromStr(T, input.x).err)

C5_Witness ==
    /\ Returned(NFS)
    /\ T = "u64" /\ IsText /\ input.x = <<"f", "o", "o">>
    /\ ~result.ok /\ result.err.kind = "custom"
    /\ result.err.msg = "invalid digit found in string"

\* C6: a boolean, a list or an object given to deserialize_string_from_number,
\* or to deserialize_number_from_string with a numeric T, ends in the
\* untagged enum's no-variant error: no variant is populated, no value returned.
C6_StructuralMismatch ==
    (/\ pc = "done"
     /\ hook = SFN \/ T \in NumericTypes
     /\ input.shape \in {"Bool", "Seq", "Map"}) =>
        /\ ~result.ok
        /\ result.err = NoVariant
        /\ variant = "None"

C6_Witness ==
    /\ Returned(NFS)
    /\ T = "u64" /\ input.shape = "Bool" /\ input.x = TRUE
    /\ ~result.ok /\ result.err.kind = "untagged"

C8_TextIsClassifiedFirst ==
    Returned(NFS) =>
        /\ IsText => (variant = "String" /\ SameResult(result, ParseOutcome(T, input.x)))
        /\ variant = "Number" => ~IsText

C8_Witness ==
    /\ Returned(NFS)
    /\ T = "Value" /\ IsText /\ input.x = <<"1", "3">>
    /\ NativeDeserialize(T, input).ok
    /\ variant = "String"
    /\ result.ok /\ result.val.v.k = "U64" /\ result.val.v.x = <<0, 0, 0, 13>>

\* C9, as claimed: for every input and every admissible T, text first then
\* native gives the same outcome (success or failure, and the value) as native
\* first then text.
C9_OrderNeverMatters ==
    Returned(NFS) =>
        LET swapped == NativeFirst(T, input)
        IN  /\ result.ok = swapped.ok
            /\ result.ok => SameVal(result.val, swapped.val)

\* C9, amended: for every input and every numeric T (u64, i64, IntId: the
\* native deserialization takes no text), no input matches both variants and
\* the order of the two attempts changes no result.
C9_OrderIrrelevantForNumericT ==
    (Returned(NFS) /\ T \in NumericTypes) =>
        /\ ~BothVariantsMatch(T, input)
        /\ SameResult(result, NativeFirst(T, input))

C9_Witness ==
    /\ Returned(NFS)
    /\ T = "u64" /\ IsText /\ input.x = <<"1", "2", "3">>
    /\ result.ok /\ NativeFirst(T, input).ok
    /\ NativeFirst(T, input).val.v = <<0, 0, 0, 123>>

\* C10: for every signed 64-bit integer n, the text deserialize_string_from_number
\* makes of n, given as text to deserialize_number_from_string with T = i64,
\* succeeds with exactly n, as giving n natively does.
C10_RoundTrip ==
    (Returned(SFN) /\ IsI64) =>
        /\ result.ok
        /\ LET viaText == number_from_string("i64", Content("Str", result.val.v))
               native == number_from_string("i64", input)
           IN  /\ viaText.ok
               /\ viaText.val.ty = "i64" /\ viaText.val.v = input.x
               /\ SameResult(viaText, native)

C10_Witness ==
    /\ Returned(SFN)
    /\ input.shape = "I64" /\ input.x = I64MinBits
    /\ result.ok /\ result.val.v = <<"-">> \o fmt_u64(I64MinBits)
    /\ number_from_string("i64", Content("Str", result.val.v)).ok

=============================================================================
